---- MODULE Spec2Model ----
(***************************************************************************)
(* juce::dsp::FastMathApproximations                                       *)
(* (modules/juce_dsp/maths/juce_FastMathApproximations.h).                 *)
(*                                                                         *)
(* Eight Pade approximants, each as a scalar form FloatType -> FloatType   *)
(* and as a buffer form (FloatType*, size_t) that overwrites the first     *)
(* numValues elements in place.  The model instantiates FloatType = float  *)
(* (IEEE-754 binary32, round to nearest even, no fused multiply-add): the  *)
(* arithmetic below is the arithmetic the expressions of the header        *)
(* perform, operation by operation, including rounding, overflow to        *)
(* infinity and NaN.                                                       *)
(***************************************************************************)
EXTENDS Integers, Sequences, FiniteSets, TLC

(***************************************************************************)
(* FloatType = float.  A value is [k, s, m, e]: k is "num", "inf" or       *)
(* "nan"; a "num" is (-1)^s * m * 2^e with m < 2^MantBits; normal numbers  *)
(* have m >= 2^(MantBits-1), subnormals and zero have e = EMin.  The       *)
(* representation is canonical, so record equality is bit equality (all    *)
(* NaNs are one value).                                                    *)
(*                                                                         *)
(* An operation Op is written as OpOf, on values, and Op, which evaluates  *)
(* each operand expression once and applies OpOf to the values.            *)
(***************************************************************************)
MantBits == 24

EMin == -149

EMax == 104

Max(a, b) == IF a >= b THEN a ELSE b

\* The element of a one-element set: Only({e(v) : v \in {d}}) is e(d) with
\* d evaluated once.
Only(S) == CHOOSE r \in S : TRUE

RECURSIVE BitLen8(_)
BitLen8(n) == IF n = 0 THEN 0 ELSE 1 + BitLen8(n \div 2)

BitLenTable == [n \in 0..255 |-> BitLen8(n)]

\* The number of significant bits of n, 0 <= n < 2^31.
BitLen(n) ==
    IF n < 65536
    THEN IF n < 256 THEN BitLenTable[n] ELSE 8 + BitLenTable[n \div 256]
    ELSE IF n < 16777216 THEN 16 + BitLenTable[n \div 65536]
         ELSE 24 + BitLenTable[n \div 16777216]

Fin(s, m, e) == [k |-> "num", s |-> s, m |-> m, e |-> e]

Inf(s) == [k |-> "inf", s |-> s, m |-> 0, e |-> 0]

NaN == [k |-> "nan", s |-> 0, m |-> 0, e |-> 0]

Zero(s) == Fin(s, 0, EMin)

IsFinite(a) == a.k = "num"

IsZero(a) == a.k = "num" /\ a.m = 0

\* (-1)^s * m * 2^e with m < 2^MantBits and e >= EMin, or an infinity if
\* that is above the largest float.
Pack(s, m, e) ==
    IF m >= 2 ^ (MantBits - 1) /\ e > EMax THEN Inf(s) ELSE Fin(s, m, e)

\* (-1)^s * q * 2^e rounded up (to q + 1) or down (to q), q < 2^MantBits.
RoundTo(s, q, e, up) ==
    IF ~up THEN Pack(s, q, e)
    ELSE IF q + 1 = 2 ^ MantBits THEN Pack(s, 2 ^ (MantBits - 1), e + 1)
    ELSE Pack(s, q + 1, e)

\* M * 2^E shifted right by k > 0 bits, k less than the n bits of M, and
\* rounded to nearest, ties to even.
RoundShift(s, M, E, sticky, k) ==
    LET q == M \div (2 ^ k)
        r == M % (2 ^ k)
    IN  RoundTo(s, q, E + k,
                r > 2 ^ (k - 1)
                \/ (r = 2 ^ (k - 1) /\ (sticky \/ (q % 2) = 1)))

\* Rounds (-1)^s * (M + f) * 2^E to the nearest float, ties to even, where
\* 0 <= M < 2^31 and 0 < f < 1 if sticky, f = 0 otherwise.  A caller that
\* sets sticky passes M with at least MantBits + 1 significant bits.
RoundPackOf(s, M, E, sticky) ==
    IF M = 0 /\ ~sticky THEN Zero(s)
    ELSE LET n == BitLen(M)
             k == Max(n - MantBits, EMin - E)
         IN  IF k <= 0 THEN Pack(s, M * (2 ^ (-k)), E + k)
             ELSE IF k > n THEN Zero(s)
             ELSE IF k = n
                  THEN IF M = 2 ^ (n - 1) /\ ~sticky THEN Zero(s)
                       ELSE Fin(s, 1, EMin)
             ELSE RoundShift(s, M, E, sticky, k)

RoundPack(s0, M0, E0, sticky0) ==
    Only({RoundPackOf(s, M, E, sticky) :
              s \in {s0}, M \in {M0}, E \in {E0}, sticky \in {sticky0}})

\* A non-zero finite value with its mantissa shifted up to MantBits bits
\* (the exponent of a subnormal goes below EMin here).
Norm(a) ==
    IF a.m >= 2 ^ (MantBits - 1) THEN [m |-> a.m, e |-> a.e]
    ELSE LET sh == MantBits - BitLen(a.m)
         IN  [m |-> a.m * (2 ^ sh), e |-> a.e - sh]

\* Conversion of the integer n * 2^sh to FloatType, |n| < 2^31.
FromInt(n, sh) ==
    IF n < 0 THEN RoundPack(1, -n, sh, FALSE) ELSE RoundPack(0, n, sh, FALSE)

\* Unary minus.
FNeg(a) ==
    Only({IF v.k = "nan" THEN NaN ELSE [v EXCEPT !.s = 1 - v.s] : v \in {a}})

\* The 48-bit product ma * mb of two MantBits-bit mantissas, times 2^e,
\* rounded: the product is hi * 2^24 + mid * 2^12 + lo over 12-bit halves.
MulMantissas(s, ma, mb, e) ==
    LET lo == (ma % 4096) * (mb % 4096)
        t == (ma \div 4096) * (mb % 4096) + (ma % 4096) * (mb \div 4096)
             + (lo \div 4096)
        H == (ma \div 4096) * (mb \div 4096) + (t \div 4096)
        L == (t % 4096) * 4096 + (lo % 4096)
    IN  RoundPack(s, H * 4 + (L \div (2 ^ 22)), e + 22, (L % (2 ^ 22)) # 0)

FMulOf(a, b) ==
    IF a.k = "nan" \/ b.k = "nan" THEN NaN
    ELSE IF a.k = "inf" \/ b.k = "inf"
         THEN IF IsZero(a) \/ IsZero(b) THEN NaN ELSE Inf((a.s + b.s) % 2)
    ELSE IF a.m = 0 \/ b.m = 0 THEN Zero((a.s + b.s) % 2)
    ELSE LET na == Norm(a)
             nb == Norm(b)
         IN  MulMantissas((a.s + b.s) % 2, na.m, nb.m, na.e + nb.e)

\* a * b
FMul(a0, b0) ==
    Only({FMulOf(a, b) : a \in {a0}, b \in {b0}})

\* MA * 2^e + MB * 2^e of signs sa and sb; st: a non-zero fraction was
\* shifted out of MB.
AddMantissas(sa, MA, sb, MB, e, st) ==
    IF sa = sb THEN RoundPack(sa, MA + MB, e, st)
    ELSE IF MA = MB /\ ~st THEN Zero(0)
    ELSE IF MA > MB
         THEN RoundPack(sa, MA - MB - (IF st THEN 1 ELSE 0), e, st)
         ELSE RoundPack(sb, MB - MA, e, FALSE)

\* a + b of two finite values, a.e >= b.e: three guard bits and a sticky bit.
AddAligned(a, b) ==
    LET d == a.e - b.e
    IN  IF d >= 27
        THEN AddMantissas(a.s, a.m * 8, b.s, 0, a.e - 3, b.m # 0)
        ELSE AddMantissas(a.s, a.m * 8, b.s, (b.m * 8) \div (2 ^ d), a.e - 3,
                          ((b.m * 8) % (2 ^ d)) # 0)

FAddOf(a, b) ==
    IF a.k = "nan" \/ b.k = "nan" THEN NaN
    ELSE IF a.k = "inf"
         THEN IF b.k = "inf" /\ b.s # a.s THEN NaN ELSE a
    ELSE IF b.k = "inf" THEN b
    ELSE IF a.m = 0 /\ b.m = 0 THEN Zero(IF a.s = 1 /\ b.s = 1 THEN 1 ELSE 0)
    ELSE IF a.e >= b.e THEN AddAligned(a, b) ELSE AddAligned(b, a)

\* a + b
FAdd(a0, b0) ==
    Only({FAddOf(a, b) : a \in {a0}, b \in {b0}})

RECURSIVE DivBits(_, _, _, _)
\* Long division: n more quotient bits of (r / d) appended to q; the result
\* is the quotient and the last remainder.
DivBits(q0, r0, d0, n0) ==
    Only({IF n = 0 THEN [q |-> q, r |-> r]
          ELSE IF 2 * r >= d THEN DivBits(2 * q + 1, 2 * r - d, d, n - 1)
          ELSE DivBits(2 * q, 2 * r, d, n - 1) :
              q \in {q0}, r \in {r0}, d \in {d0}, n \in {n0}})

FDivOf(a, b) ==
    IF a.k = "nan" \/ b.k = "nan" THEN NaN
    ELSE IF a.k = "inf"
         THEN IF b.k = "inf" THEN NaN ELSE Inf((a.s + b.s) % 2)
    ELSE IF b.k = "inf" THEN Zero((a.s + b.s) % 2)
    ELSE IF b.m = 0 THEN IF a.m = 0 THEN NaN ELSE Inf((a.s + b.s) % 2)
    ELSE IF a.m = 0 THEN Zero((a.s + b.s) % 2)
    ELSE LET na == Norm(a)
             nb == Norm(b)
         IN  Only({RoundPack((a.s + b.s) % 2, qr.q, na.e - nb.e - 26, qr.r # 0) :
                   qr \in {DivBits(na.m \div nb.m, na.m % nb.m, nb.m, 26)}})

\* a / b
FDiv(a0, b0) ==
    Only({FDivOf(a, b) : a \in {a0}, b \in {b0}})

\* |a| < |b|, |a| = |b| for finite values (canonical form: order by (e, m)).
MagLess(a, b) == a.e < b.e \/ (a.e = b.e /\ a.m < b.m)

\* a < b; FALSE if either is a NaN.
FLess(a, b) ==
    IF a.k = "nan" \/ b.k = "nan" THEN FALSE
    ELSE IF IsZero(a) /\ IsZero(b) THEN FALSE
    ELSE IF a.s # b.s THEN a.s = 1
    ELSE IF a.k = "inf" THEN a.s = 1 /\ b.k # "inf"
    ELSE IF b.k = "inf" THEN b.s = 0
    ELSE IF a.s = 0 THEN MagLess(a, b) ELSE MagLess(b, a)

\* a <= b
FLeq(a, b) == a.k # "nan" /\ b.k # "nan" /\ ~FLess(b, a)

\* An integer literal of the source converted to FloatType.
Lit(n) == FromInt(n, 0)

(***************************************************************************)
(* The scalar forms.  Each is numerator / denominator, the two polynomials *)
(* evaluated in the order the C++ expression fixes.                        *)
(***************************************************************************)
coshNumerator(x) ==
    LET a == Lit(39251520)  b == Lit(39251520)  c == Lit(1075032)
        d == Lit(14615)
        x2 == FMul(x, x)
    IN  FNeg(FAdd(a, FMul(x2, FAdd(b, FMul(x2, FAdd(c, FMul(d, x2)))))))

\* Mutant of coshDenominator: the constant term 39251520 mistyped (digits
\* swapped), so that numerator and denominator no longer agree at 0.
coshDenominatorTypo(x) ==
    LET a == Lit(39251250)  e == Lit(1154160)  f == Lit(16632)
        g == Lit(127)
        x2 == FMul(x, x)
    IN  FAdd(FNeg(a), FMul(x2, FAdd(e, FMul(x2, FAdd(FNeg(f), FMul(g, x2))))))

coshDenominator(x) ==
    LET a == Lit(39251520)  e == Lit(1154160)  f == Lit(16632)
        g == Lit(127)
        x2 == FMul(x, x)
    IN  FAdd(FNeg(a), FMul(x2, FAdd(e, FMul(x2, FAdd(FNeg(f), FMul(g, x2))))))

cosh(x) == FDiv(coshNumerator(x), coshDenominator(x))

\* 11511339840 = 1438917480 * 2^3 (a 64-bit integer literal in the source).
sinhNumerator(x) ==
    LET x2 == FMul(x, x)
    IN  FMul(FNeg(x),
                 FAdd(FromInt(1438917480, 3),
                      FMul(x2, FAdd(Lit(1640635920),
                                    FMul(x2, FAdd(Lit(52785432),
                                                  FMul(x2, Lit(479249))))))))

sinhDenominator(x) ==
    LET x2 == FMul(x, x)
    IN  FAdd(FromInt(-1438917480, 3),
                 FMul(x2, FAdd(Lit(277920720),
                               FMul(x2, FAdd(Lit(-3177720),
                                             FMul(x2, Lit(18361)))))))

sinh(x) == FDiv(sinhNumerator(x), sinhDenominator(x))

tanhNumerator(x) ==
    LET x2 == FMul(x, x)
    IN  FMul(x, FAdd(Lit(135135),
                         FMul(x2, FAdd(Lit(17325), FMul(x2, FAdd(Lit(378), x2))))))

tanhDenominator(x) ==
    LET x2 == FMul(x, x)
    IN  FAdd(Lit(135135),
                 FMul(x2, FAdd(Lit(62370),
                               FMul(x2, FAdd(Lit(3150), FMul(Lit(28), x2))))))

tanh(x) == FDiv(tanhNumerator(x), tanhDenominator(x))

cosNumerator(x) ==
    LET a == Lit(39251520)  b == Lit(18471600)  c == Lit(1075032)
        d == Lit(14615)
        x2 == FMul(x, x)
    IN  FNeg(FAdd(FNeg(a),
                      FMul(x2, FAdd(b, FMul(x2, FAdd(FNeg(c), FMul(d, x2)))))))

\* Mutant of cosDenominator: the constant term negated, which gives the
\* denominator a root at about 4.9.
cosDenominatorNegated(x) ==
    LET a == Lit(39251520)  e == Lit(1154160)  f == Lit(16632)
        g == Lit(127)
        x2 == FMul(x, x)
    IN  FAdd(FNeg(a), FMul(x2, FAdd(e, FMul(x2, FAdd(f, FMul(x2, g))))))

cosDenominator(x) ==
    LET a == Lit(39251520)  e == Lit(1154160)  f == Lit(16632)
        g == Lit(127)
        x2 == FMul(x, x)
    IN  FAdd(a, FMul(x2, FAdd(e, FMul(x2, FAdd(f, FMul(x2, g))))))

cos(x) == FDiv(cosNumerator(x), cosDenominator(x))

sinNumerator(x) ==
    LET a == FromInt(1438917480, 3)  b == Lit(1640635920)
        c == Lit(52785432)           d == Lit(479249)
        x2 == FMul(x, x)
    IN  FMul(FNeg(x),
                 FAdd(FNeg(a),
                      FMul(x2, FAdd(b, FMul(x2, FAdd(FNeg(c), FMul(x2, d)))))))

sinDenominator(x) ==
    LET a == FromInt(1438917480, 3)  e == Lit(277920720)
        f == Lit(3177720)            g == Lit(18361)
        x2 == FMul(x, x)
    IN  FAdd(a, FMul(x2, FAdd(e, FMul(x2, FAdd(f, FMul(x2, g))))))

sin(x) == FDiv(sinNumerator(x), sinDenominator(x))

\* Mutant of tanNumerator: the factor x dropped, which leaves an even
\* function of x.
tanNumeratorEven(x) ==
    LET x2 == FMul(x, x)
    IN  FAdd(Lit(-135135),
             FMul(x2, FAdd(Lit(17325), FMul(x2, FAdd(Lit(-378), x2)))))

tanNumerator(x) ==
    LET x2 == FMul(x, x)
    IN  FMul(x, FAdd(Lit(-135135),
                         FMul(x2, FAdd(Lit(17325), FMul(x2, FAdd(Lit(-378), x2))))))

\* Mutant of tanDenominator: 62370 mistyped as 62730, which moves the
\* denominator's root from just above pi/2 to just below it.
tanDenominatorTypo(x) ==
    LET x2 == FMul(x, x)
    IN  FAdd(Lit(-135135),
                 FMul(x2, FAdd(Lit(62730),
                               FMul(x2, FAdd(Lit(-3150), FMul(Lit(28), x2))))))

tanDenominator(x) ==
    LET x2 == FMul(x, x)
    IN  FAdd(Lit(-135135),
                 FMul(x2, FAdd(Lit(62370),
                               FMul(x2, FAdd(Lit(-3150), FMul(Lit(28), x2))))))

tan(x) == FDiv(tanNumerator(x), tanDenominator(x))

\* Mutant of expNumerator: 180 mistyped as 108.
expNumeratorTypo(x) ==
    FAdd(Lit(1680),
         FMul(x, FAdd(Lit(840),
                      FMul(x, FAdd(Lit(108), FMul(x, FAdd(Lit(20), x)))))))

expNumerator(x) ==
    FAdd(Lit(1680),
         FMul(x, FAdd(Lit(840),
                      FMul(x, FAdd(Lit(180), FMul(x, FAdd(Lit(20), x)))))))

expDenominator(x) ==
    FAdd(Lit(1680),
         FMul(x, FAdd(Lit(-840),
                      FMul(x, FAdd(Lit(180), FMul(x, FAdd(Lit(-20), x)))))))

exp(x) == FDiv(expNumerator(x), expDenominator(x))

logNPlusOneNumerator(x) ==
    FMul(x, FAdd(Lit(7560),
                 FMul(x, FAdd(Lit(15120),
                              FMul(x, FAdd(Lit(9870),
                                           FMul(x, FAdd(Lit(2310),
                                                        FMul(x, Lit(137))))))))))

logNPlusOneDenominator(x) ==
    FAdd(Lit(7560),
         FMul(x, FAdd(Lit(18900),
                      FMul(x, FAdd(Lit(16800),
                                   FMul(x, FAdd(Lit(6300),
                                                FMul(x, FAdd(Lit(900),
                                                             FMul(Lit(30), x))))))))))

logNPlusOne(x) == FDiv(logNPlusOneNumerator(x), logNPlusOneDenominator(x))


(***************************************************************************)
(* Inputs.  The bounds of the model.                                       *)
(***************************************************************************)
\* Buffers hold MaxLen elements.
MaxLen == 3

\* Scalar inputs are the quarters k / 4 for |k| <= GridMax, and the special
\* values below.
GridMax == 26

Grid == {FromInt(k, -2) : k \in -GridMax..GridMax}

\* float(pi), float(pi/2) (both just above the real number) and the floats
\* just below them.
PiAbove == Fin(0, 13176795, -22)

PiBelow == Fin(0, 13176794, -22)

HalfPiAbove == Fin(0, 13176795, -23)

HalfPiBelow == Fin(0, 13176794, -23)

\* float(-0.8) = -13421773 * 2^-24, which is just below the real -0.8; the
\* next float up is the first one inside [-0.8, 5].
MinusPoint8Below == Fin(1, 13421773, -24)

MinusPoint8Above == Fin(1, 13421772, -24)

\* 8.02307415008545 (bits 0x41005E83), next to the real root of cosh's
\* denominator; 2^64, whose square overflows; 2^-100, whose square
\* underflows.
NearCoshPole == Fin(0, 8412803, -20)

Huge == Fin(0, 8388608, 41)

Tiny == Fin(0, 8388608, -123)

Special == {PiAbove, PiBelow, HalfPiAbove, HalfPiBelow, MinusPoint8Below,
            MinusPoint8Above, NearCoshPole, Huge, Tiny, Zero(1)}

ScalarInputs == Grid \cup Special \cup {FNeg(v) : v \in Special}

\* 0.0, 0.5, 1.0
BufferInputs == {Zero(0), FromInt(1, -1), FromInt(1, 0)}

Fns == {"cosh", "sinh", "tanh", "cos", "sin", "tan", "exp", "logNPlusOne"}

Threads == {"T1", "T2"}

Main == "T1"

(***************************************************************************)
(* State.  values is the caller's memory; each thread runs at most one     *)
(* call: the scalar form (x, result) or a buffer form on the range         *)
(* values[base .. base + numValues - 1] (0-based), with loop index i and   *)
(* the element read, tmp.  original is the memory as it was when the       *)
(* calls were made (history, read by no action).                           *)
(***************************************************************************)
VARIABLES values, original, pc, fn, base, numValues, i, tmp, x, result

vars == <<values, original, pc, fn, base, numValues, i, tmp, x, result>>

Init ==
    /\ values = <<>>
    /\ original = <<>>
    /\ pc = [t \in Threads |-> "idle"]
    /\ fn = [t \in Threads |-> "none"]
    /\ base = [t \in Threads |-> 0]
    /\ numValues = [t \in Threads |-> 0]
    /\ i = [t \in Threads |-> 0]
    /\ tmp = [t \in Threads |-> Zero(0)]
    /\ x = Zero(0)
    /\ result = Zero(0)

\* The main thread calls the scalar form name on the input v; r is what
\* the form returns.
ScalarCall(name, v, r) ==
    /\ pc[Main] = "idle"
    /\ x' = v
    /\ result' = r
    /\ fn' = [fn EXCEPT ![Main] = name]
    /\ pc' = [pc EXCEPT ![Main] = "returned"]
    /\ UNCHANGED <<values, original, base, numValues, i, tmp>>

coshScalar == \E v \in ScalarInputs : ScalarCall("cosh", v, cosh(v))

sinhScalar == \E v \in ScalarInputs : ScalarCall("sinh", v, sinh(v))

tanhScalar == \E v \in ScalarInputs : ScalarCall("tanh", v, tanh(v))

cosScalar == \E v \in ScalarInputs : ScalarCall("cos", v, cos(v))

sinScalar == \E v \in ScalarInputs : ScalarCall("sin", v, sin(v))

tanScalar == \E v \in ScalarInputs : ScalarCall("tan", v, tan(v))

expScalar == \E v \in ScalarInputs : ScalarCall("exp", v, exp(v))

logNPlusOneScalar == \E v \in ScalarInputs : ScalarCall("logNPlusOne", v, logNPlusOne(v))

\* The main thread calls a buffer form on a buffer it owns, with a count
\* that does not exceed the buffer's length.
BufferCall ==
    /\ pc[Main] = "idle"
    /\ \E buf \in [1..MaxLen -> BufferInputs], name \in Fns, n \in 0..MaxLen :
          /\ values' = buf
          /\ original' = buf
          /\ fn' = [fn EXCEPT ![Main] = name]
          /\ numValues' = [numValues EXCEPT ![Main] = n]
    /\ pc' = [pc EXCEPT ![Main] = "called"]
    /\ UNCHANGED <<base, i, tmp, x, result>>

\* Mutant of LoopInit: the loop counter is one variable shared by the
\* callers, so that a call entering its loop resets every call's counter.
LoopInitShared(t, name) ==
    /\ pc[t] = "called" /\ fn[t] = name
    /\ i' = [u \in Threads |-> 0]
    /\ pc' = [pc EXCEPT ![t] = "loop"]
    /\ UNCHANGED <<values, original, fn, base, numValues, tmp, x, result>>

\* size_t i = 0
LoopInit(t, name) ==
    /\ pc[t] = "called" /\ fn[t] = name
    /\ i' = [i EXCEPT ![t] = 0]
    /\ pc' = [pc EXCEPT ![t] = "loop"]
    /\ UNCHANGED <<values, original, fn, base, numValues, tmp, x, result>>

\* Mutant of LoopRead: the loop condition is i <= numValues, so that the
\* loop goes one element further (as far as there is memory).
LoopReadOneMore(t, name) ==
    /\ pc[t] = "loop" /\ fn[t] = name
    /\ i[t] <= numValues[t]
    /\ base[t] + i[t] < Len(values)
    /\ tmp' = [tmp EXCEPT ![t] = values[base[t] + i[t] + 1]]
    /\ pc' = [pc EXCEPT ![t] = "store"]
    /\ UNCHANGED <<values, original, fn, base, numValues, i, x, result>>

\* i < numValues holds: the argument values[i] is read
LoopRead(t, name) ==
    /\ pc[t] = "loop" /\ fn[t] = name
    /\ i[t] < numValues[t]
    /\ tmp' = [tmp EXCEPT ![t] = values[base[t] + i[t] + 1]]
    /\ pc' = [pc EXCEPT ![t] = "store"]
    /\ UNCHANGED <<values, original, fn, base, numValues, i, x, result>>

\* values[i] = r, the scalar form of the value read; ++i
LoopWrite(t, name, r) ==
    /\ pc[t] = "store" /\ fn[t] = name
    /\ values' = [values EXCEPT ![base[t] + i[t] + 1] = r]
    /\ i' = [i EXCEPT ![t] = i[t] + 1]
    /\ pc' = [pc EXCEPT ![t] = "loop"]
    /\ UNCHANGED <<original, fn, base, numValues, tmp, x, result>>

\* i < numValues fails: the buffer form returns
LoopExit(t, name) ==
    /\ pc[t] = "loop" /\ fn[t] = name
    /\ i[t] >= numValues[t]
    /\ pc' = [pc EXCEPT ![t] = "done"]
    /\ UNCHANGED <<values, original, fn, base, numValues, i, tmp, x, result>>

\* for (size_t i = 0; i < numValues; ++i) values[i] = f (values[i]);
\* r is f (the value read).
BufferForm(t, name, r) ==
    \/ LoopInit(t, name)
    \/ LoopRead(t, name)
    \/ LoopWrite(t, name, r)
    \/ LoopExit(t, name)

coshBuffer(t) == BufferForm(t, "cosh", cosh(tmp[t]))

sinhBuffer(t) == BufferForm(t, "sinh", sinh(tmp[t]))

tanhBuffer(t) == BufferForm(t, "tanh", tanh(tmp[t]))

cosBuffer(t) == BufferForm(t, "cos", cos(tmp[t]))

\* Mutant of sinBuffer: the loop body calls cos.
sinBufferCallsCos(t) == BufferForm(t, "sin", cos(tmp[t]))

sinBuffer(t) == BufferForm(t, "sin", sin(tmp[t]))

tanBuffer(t) == BufferForm(t, "tan", tan(tmp[t]))

expBuffer(t) == BufferForm(t, "exp", exp(tmp[t]))

logNPlusOneBuffer(t) == BufferForm(t, "logNPlusOne", logNPlusOne(tmp[t]))

\* One step of the buffer form thread t is in.
Step(t) ==
    \/ coshBuffer(t)
    \/ sinhBuffer(t)
    \/ tanhBuffer(t)
    \/ cosBuffer(t)
    \/ sinBuffer(t)
    \/ tanBuffer(t)
    \/ expBuffer(t)
    \/ logNPlusOneBuffer(t)

Next ==
    \/ coshScalar
    \/ sinhScalar
    \/ tanhScalar
    \/ cosScalar
    \/ sinScalar
    \/ tanScalar
    \/ expScalar
    \/ logNPlusOneScalar
    \/ BufferCall
    \/ \E t \in Threads : Step(t)

\* One call at a time, made by the main thread.
Spec == Init /\ [][Next]_vars

(***************************************************************************)
(* Concurrent callers: every thread has called a buffer form on its own    *)
(* non-empty range of the same memory, and the ranges are pairwise         *)
(* disjoint.  The threads are interchangeable: T1 is the one whose range   *)
(* comes first.  The memory holds 0.25, 0.5, 0.75, ...: no two elements    *)
(* are equal, so an element computed from another one shows.               *)
(***************************************************************************)
Range(b, n) == {b + j : j \in 0..(n - 1)}

InitConc ==
    /\ values = [j \in 1..MaxLen |-> FromInt(j, -2)]
    /\ original = values
    /\ pc = [t \in Threads |-> "called"]
    /\ fn \in [Threads -> Fns]
    /\ base \in [Threads -> 0..MaxLen]
    /\ numValues \in [Threads -> 1..MaxLen]
    /\ \A t \in Threads : base[t] + numValues[t] <= MaxLen
    /\ \A t, u \in Threads :
          t # u => Range(base[t], numValues[t]) \cap Range(base[u], numValues[u]) = {}
    /\ base["T1"] < base["T2"]
    /\ i = [t \in Threads |-> 0]
    /\ tmp = [t \in Threads |-> Zero(0)]
    /\ x = Zero(0)
    /\ result = Zero(0)

NextConc == \E t \in Threads : Step(t)

\* The threads run: while some call can take a step, a step is taken.
SpecConc == InitConc /\ [][NextConc]_vars /\ WF_vars(NextConc)
(***************************************************************************)
(* The overload set, by name.                                              *)
(***************************************************************************)
Scalar(name, v) ==
    CASE name = "cosh" -> cosh(v)
      [] name = "sinh" -> sinh(v)
      [] name = "tanh" -> tanh(v)
      [] name = "cos" -> cos(v)
      [] name = "sin" -> sin(v)
      [] name = "tan" -> tan(v)
      [] name = "exp" -> exp(v)
      [] name = "logNPlusOne" -> logNPlusOne(v)

Denominator(name, v) ==
    CASE name = "cosh" -> coshDenominator(v)
      [] name = "sinh" -> sinhDenominator(v)
      [] name = "tanh" -> tanhDenominator(v)
      [] name = "cos" -> cosDenominator(v)
      [] name = "sin" -> sinDenominator(v)
      [] name = "tan" -> tanDenominator(v)
      [] name = "exp" -> expDenominator(v)
      [] name = "logNPlusOne" -> logNPlusOneDenominator(v)

Numerator(name, v) ==
    CASE name = "cosh" -> coshNumerator(v)
      [] name = "sinh" -> sinhNumerator(v)
      [] name = "tanh" -> tanhNumerator(v)
      [] name = "cos" -> cosNumerator(v)
      [] name = "sin" -> sinNumerator(v)
      [] name = "tan" -> tanNumerator(v)
      [] name = "exp" -> expNumerator(v)
      [] name = "logNPlusOne" -> logNPlusOneNumerator(v)

\* The input range each function's comment advises, as a set of reals:
\* float(pi) and float(pi/2) lie above pi and pi/2, float(-0.8) below -0.8.
InDomain(name, v) ==
    CASE name \in {"cosh", "sinh", "tanh"} -> FLeq(Lit(-5), v) /\ FLeq(v, Lit(5))
      [] name \in {"cos", "sin"} -> FLeq(FNeg(PiBelow), v) /\ FLeq(v, PiBelow)
      [] name = "tan" -> FLeq(FNeg(HalfPiBelow), v) /\ FLeq(v, HalfPiBelow)
      [] name = "exp" -> FLeq(Lit(-6), v) /\ FLeq(v, Lit(4))
      [] name = "logNPlusOne" -> FLeq(MinusPoint8Above, v) /\ FLeq(v, Lit(5))

(***************************************************************************)
(* Exact comparison of a float with a decimal fraction: natural numbers of *)
(* any size as sequences of base-2^15 digits, least significant first.     *)
(***************************************************************************)
Big(n) == <<n % 32768, (n \div 32768) % 32768, n \div 1073741824>>

RECURSIVE BigMul(_, _, _)
\* X * k + c, for k <= 2^15
BigMul(X, k, c) ==
    IF X = <<>> THEN IF c = 0 THEN <<>> ELSE <<c>>
    ELSE <<(Head(X) * k + c) % 32768>>
         \o BigMul(Tail(X), k, (Head(X) * k + c) \div 32768)

RECURSIVE BigShl(_, _)
\* X * 2^n
BigShl(X, n) ==
    IF n >= 15 THEN <<0>> \o BigShl(X, n - 15) ELSE BigMul(X, 2 ^ n, 0)

RECURSIVE BigPow10(_, _)
\* X * 10^q
BigPow10(X, q) == IF q = 0 THEN X ELSE BigPow10(BigMul(X, 10, 0), q - 1)

RECURSIVE BigTrim(_)
BigTrim(X) ==
    IF X # <<>> /\ X[Len(X)] = 0 THEN BigTrim(SubSeq(X, 1, Len(X) - 1)) ELSE X

RECURSIVE BigCmpDigits(_, _, _)
BigCmpDigits(X, Y, j) ==
    IF j = 0 THEN 0
    ELSE IF X[j] < Y[j] THEN -1
    ELSE IF X[j] > Y[j] THEN 1
    ELSE BigCmpDigits(X, Y, j - 1)

\* -1, 0, 1 as X <, =, > Y
BigCmp(X, Y) ==
    LET A == BigTrim(X)
        B == BigTrim(Y)
    IN  IF Len(A) < Len(B) THEN -1
        ELSE IF Len(A) > Len(B) THEN 1
        ELSE BigCmpDigits(A, B, Len(A))

\* -1, 0, 1 as |a| <, =, > P / 10^q, for a finite a and a natural P.
MagCmp(a, P, q) ==
    IF a.e >= 0
    THEN BigCmp(BigShl(BigPow10(Big(a.m), q), a.e), P)
    ELSE BigCmp(BigPow10(Big(a.m), q), BigShl(P, -a.e))

\* |a - p / 10^q| <= tol / 10^q, for naturals p and tol with p = 0 or p > tol.
Within(a, p, tol, q) ==
    /\ IsFinite(a)
    /\ IF p = 0 THEN MagCmp(a, Big(tol), q) <= 0
       ELSE /\ a.s = 0
            /\ MagCmp(a, Big(p - tol), q) >= 0
            /\ MagCmp(a, Big(p + tol), q) <= 0

(***************************************************************************)
(* The exact functions the approximations stand for (std::cosh, ...,       *)
(* std::log1p), tabulated at the halves h / 2: RefMicro is the exact value *)
(* times 10^6, truncated towards zero, so that the exact value g has       *)
(* |RefMicro| <= |g| * 10^6 < |RefMicro| + 1 and the sign of RefMicro      *)
(* (cosh, cos and exp at 0 are exactly 1; 0 stands for exactly 0).         *)
(***************************************************************************)
RefMicro(name, h) ==
    CASE
       name = "cosh" ->
        <<74209948, 45014120, 27308232, 16572824, 10067661, 6132289,
        3762195, 2352409, 1543080, 1127625, 1000000, 1127625,
        1543080, 2352409, 3762195, 6132289, 10067661, 16572824,
        27308232, 45014120, 74209948>>[h - (-10) + 1]
    [] name = "sinh" ->
        <<-74203210, -45003011, -27289917, -16542627, -10017874,
        -6050204, -3626860, -2129279, -1175201, -521095, 0,
        521095, 1175201, 2129279, 3626860, 6050204, 10017874,
        16542627, 27289917, 45003011, 74203210>>[h - (-10) + 1]
    [] name = "tanh" ->
        <<-999909, -999753, -999329, -998177, -995054, -986614,
        -964027, -905148, -761594, -462117, 0, 462117, 761594,
        905148, 964027, 986614, 995054, 998177, 999329, 999753,
        999909>>[h - (-10) + 1]
    [] name = "cos" ->
        <<-989992, -801143, -416146, 70737, 540302, 877582, 1000000,
        877582, 540302, 70737, -416146, -801143, -989992>>[h - (-6) + 1]
    [] name = "sin" ->
        <<-141120, -598472, -909297, -997494, -841470, -479425, 0,
        479425, 841470, 997494, 909297, 598472, 141120>>[h - (-6) + 1]
    [] name = "tan" ->
        <<-14101419, -1557407, -546302, 0, 546302, 1557407, 14101419>>[h - (-3) + 1]
    [] name = "exp" ->
        <<2478, 4086, 6737, 11108, 18315, 30197, 49787, 82084,
        135335, 223130, 367879, 606530, 1000000, 1648721, 2718281,
        4481689, 7389056, 12182493, 20085536, 33115451, 54598150>>[h - (-12) + 1]
    [] name = "logNPlusOne" ->
        <<-693147, 0, 405465, 693147, 916290, 1098612, 1252762,
        1386294, 1504077, 1609437, 1704748, 1791759>>[h - (-1) + 1]

\* A necessary condition of |a - g| <= |g| / 1000 for the exact value g the
\* table encloses: a has g's sign, and
\* |RefMicro| * 999 <= |a| * 10^9 <= (|RefMicro| + 1) * 1001.
RelativeError1e3(a, name, h) ==
    LET r   == RefMicro(name, h)
        mag == IF r < 0 THEN -r ELSE r
    IN  /\ IsFinite(a)
        /\ IF r = 0 THEN a.m = 0
           ELSE /\ a.s = (IF r < 0 THEN 1 ELSE 0)
                /\ MagCmp(a, BigMul(Big(mag), 999, 0), 9) >= 0
                /\ MagCmp(a, BigMul(Big(mag + 1), 1001, 0), 9) <= 0
(***************************************************************************)
(* Properties.                                                             *)
(***************************************************************************)
Returned == pc[Main] = "returned"

BufferDone == pc[Main] = "done"

Half == FromInt(1, -1)

One == FromInt(1, 0)

\* C1: after a buffer form returns, element j of the first numValues
\* elements is the scalar form of the same name applied to the value the
\* element held when the call was made, whatever the other elements hold.
C1_BufferEqualsScalar ==
    BufferDone =>
        \A j \in 1..numValues[Main] :
            values[j] = Scalar(fn[Main], original[j])

C1_Witness ==
    /\ BufferDone
    /\ numValues[Main] = MaxLen
    /\ \A j \in 1..MaxLen : values[j] # original[j]

\* C2: from the call to the return of a buffer form with count numValues,
\* the elements at (0-based) index >= numValues hold the value they held
\* when the call was made; with numValues = 0 the whole buffer does.
C2_TailUntouched ==
    pc[Main] \in {"called", "loop", "store", "done"} =>
        /\ \A j \in (numValues[Main] + 1)..Len(values) : values[j] = original[j]
        /\ numValues[Main] = 0 => values = original

C2_Witness ==
    /\ BufferDone
    /\ numValues[Main] > 0
    /\ numValues[Main] < Len(values)
    /\ \A j \in 1..numValues[Main] : values[j] # original[j]

\* C3: for an input inside the function's advised range the denominator a
\* scalar form divides by is a finite non-zero number, and it has the sign
\* the denominator has at 0 (so it has no root between the inputs either).
C3_DenominatorNonZeroInDomain ==
    (Returned /\ InDomain(fn[Main], x)) =>
        LET d == Denominator(fn[Main], x)
        IN  /\ IsFinite(d)
            /\ d.m # 0
            /\ d.s = Denominator(fn[Main], Zero(0)).s

C3_Witness ==
    /\ Returned
    /\ fn[Main] = "tan"
    /\ x = HalfPiBelow
    /\ InDomain("tan", x)

\* C4: for an input h / 2 inside the function's advised range (the end
\* points -5, 5, -6, 4 included) the result is within 1/1000 of the exact
\* value, relative to that value.
C4_RelativeErrorBelow1e3 ==
    Returned =>
        \A h \in -12..12 :
            (x = FromInt(h, -1) /\ InDomain(fn[Main], x)) =>
                RelativeError1e3(result, fn[Main], h)

\* C5: exp (1.0) is within 1e-4 of 2.71828, cos (0.5) within 1e-4 of
\* 0.87758, and the buffer sin on (0.0, 0.5, 1.0) with count 3 leaves the
\* elements within 1e-4 of 0.0, 0.47943 and 0.84147.
C5_ConcreteScenario ==
    /\ (Returned /\ fn[Main] = "exp" /\ x = One) => Within(result, 271828, 10, 5)
    /\ (Returned /\ fn[Main] = "cos" /\ x = Half) => Within(result, 87758, 10, 5)
    /\ (BufferDone /\ fn[Main] = "sin" /\ numValues[Main] = 3
        /\ SubSeq(original, 1, 3) = <<Zero(0), Half, One>>) =>
            /\ Within(values[1], 0, 10, 5)
            /\ Within(values[2], 47943, 10, 5)
            /\ Within(values[3], 84147, 10, 5)

C5_Witness ==
    /\ BufferDone /\ fn[Main] = "sin" /\ numValues[Main] = 3
    /\ SubSeq(original, 1, 3) = <<Zero(0), Half, One>>
    /\ values[3] = sin(One)

\* C6: at input 0 cos, cosh and exp return 1 and sin, sinh, tan, tanh and
\* logNPlusOne return 0, each within 1e-9.
C6_AtZero ==
    (Returned /\ x = Zero(0)) =>
        IF fn[Main] \in {"cos", "cosh", "exp"}
        THEN Within(result, 1000000000, 1, 9)
        ELSE Within(result, 0, 1, 9)

C6_Witness ==
    /\ Returned
    /\ x = Zero(0)
    /\ fn[Main] = "cosh"
    /\ result = One

\* C7: where the denominator is a non-zero number, sin and tan are odd and
\* cos and cosh are even, bit for bit; and an element a buffer form has
\* written is, likewise, what the scalar form makes of the negated original
\* element, negated (sin, tan) or as it is (cos, cosh).
Symmetric(name, v, r) ==
    LET d == Denominator(name, v)
    IN  (IsFinite(d) /\ d.m # 0) =>
            /\ name \in {"sin", "tan"} => Scalar(name, FNeg(v)) = FNeg(r)
            /\ name \in {"cos", "cosh"} => Scalar(name, FNeg(v)) = r

C8_FiniteOutOfDomain ==
    (Returned /\ ~InDomain(fn[Main], x)) =>
        /\ ~IsZero(Denominator(fn[Main], x))
        /\ IsFinite(result)

\* C8 as amended: for an input outside the advised range, the denominator
\* of tanh, cos, sin and exp is non-zero with the sign it has at 0, and the
\* result of these four is finite whenever numerator and denominator are.
C8_FourDenominatorsNonZero ==
    (Returned /\ ~InDomain(fn[Main], x)
     /\ fn[Main] \in {"tanh", "cos", "sin", "exp"}) =>
        LET d == Denominator(fn[Main], x)
        IN  /\ ~IsZero(d)
            /\ d.k # "nan"
            /\ d.s = Denominator(fn[Main], Zero(0)).s
            /\ (IsFinite(d) /\ IsFinite(Numerator(fn[Main], x))) => IsFinite(result)

C8_Witness ==
    /\ Returned
    /\ fn[Main] = "exp"
    /\ ~InDomain("exp", x)
    /\ IsFinite(result)
    /\ x = FromInt(23, -2)

(***************************************************************************)
(* C10: concurrent buffer forms on disjoint ranges.                        *)
(***************************************************************************)
AllDone == \A t \in Threads : pc[t] = "done"

\* Once every call has returned, each element of a call's range is that
\* call's scalar form of the original element, and every other element is
\* the original one: the memory is what the calls leave run in any order.
C10_Final ==
    AllDone =>
        \A j \in 1..Len(values) :
            /\ \A t \in Threads :
                  j - 1 \in Range(base[t], numValues[t]) =>
                      values[j] = Scalar(fn[t], original[j])
            /\ (\A t \in Threads : j - 1 \notin Range(base[t], numValues[t])) =>
                  values[j] = original[j]

\* A step reads or writes only an element of the stepping call's range.
C10_OwnRange ==
    /\ \A j \in 1..Len(values) :
          values'[j] # values[j] =>
              \E t \in Threads :
                  /\ pc[t] = "store" /\ pc'[t] = "loop"
                  /\ j - 1 = base[t] + i[t]
                  /\ j - 1 \in Range(base[t], numValues[t])
    /\ \A t \in Threads :
          (pc[t] = "loop" /\ pc'[t] = "store") =>
              /\ base[t] + i[t] \in Range(base[t], numValues[t])
              /\ tmp'[t] = values[base[t] + i[t] + 1]

\* C10: under every interleaving each call terminates, the final memory is
\* that of the calls run one after the other, and no call touches an index
\* outside its range.
C10_ConcurrentDisjoint ==
    /\ []C10_Final
    /\ [][C10_OwnRange]_vars
    /\ <>AllDone

C10_Witness ==
    /\ AllDone
    /\ fn["T1"] # fn["T2"]
    /\ \A t \in Threads : numValues[t] >= 1
    /\ \E j \in 1..Len(values) : values[j] # original[j]
====
